---- MODULE Spec2Model ----
(***************************************************************************)
(* Premiere project (.prproj XML) -> flat clip rows, and ticks -> timecode. *)
(*                                                                         *)
(* parser/timeline_flatten.py : extract_rows and its helpers               *)
(* parser/timecode.py         : ticks_to_tc_24fps                          *)
(* app.py                     : the script that calls both                 *)
(*                                                                         *)
(* An XML element is a record                                              *)
(*   [tag, ObjectID, ObjectUID, ObjectRef, ObjectURef, Index, text, kids]  *)
(* whose kids are elements again.  Attribute values that the code only     *)
(* compares are strings ("" = attribute absent); texts and the Index       *)
(* attribute, which the code strips, tests with isdigit and parses, are    *)
(* sequences of one-character strings.  Python's None is NoElem for an     *)
(* element, <<>> for a text and <<>> (against <<n>>) for an int.           *)
(***************************************************************************)
EXTENDS Integers, Sequences, FiniteSets, TLC

\* ------------------------------------------------------------------------
\* Sequence helpers
\* ------------------------------------------------------------------------
RECURSIVE Concat(_)
Concat(ss) == IF ss = <<>> THEN <<>> ELSE Head(ss) \o Concat(Tail(ss))

First(s, none) == IF s = <<>> THEN none ELSE Head(s)

\* ------------------------------------------------------------------------
\* Text: str.strip, str.lstrip("-+"), str.isdigit, int(str)
\* ------------------------------------------------------------------------
Digits == <<"0", "1", "2", "3", "4", "5", "6", "7", "8", "9">>

IsDigitChar(c) == \E i \in 1..Len(Digits) : Digits[i] = c

DigitVal(c) == (CHOOSE i \in 1..Len(Digits) : Digits[i] = c) - 1

IsSpace(c) == c = " "

RECURSIVE LStripSpace(_)
LStripSpace(s) ==
    IF s # <<>> /\ IsSpace(Head(s)) THEN LStripSpace(Tail(s)) ELSE s

RECURSIVE RStripSpace(_)
RStripSpace(s) ==
    IF s # <<>> /\ IsSpace(s[Len(s)])
    THEN RStripSpace(SubSeq(s, 1, Len(s) - 1)) ELSE s

\* str.strip()
Strip(s) == RStripSpace(LStripSpace(s))

\* str.lstrip("-+"): every leading sign character goes
RECURSIVE LStripSigns(_)
LStripSigns(s) ==
    IF s # <<>> /\ Head(s) \in {"-", "+"} THEN LStripSigns(Tail(s)) ELSE s

\* str.isdigit(): non-empty and all digits
IsDigitStr(s) == s # <<>> /\ \A i \in 1..Len(s) : IsDigitChar(s[i])

RECURSIVE DecVal(_)
DecVal(s) ==
    IF s = <<>> THEN 0 ELSE 10 * DecVal(SubSeq(s, 1, Len(s) - 1)) + DigitVal(s[Len(s)])

\* int(s) for a stripped s: <<n>>, or <<>> where Python raises ValueError
\* (one optional sign, then digits only)
ParseInt(s) ==
    IF IsDigitStr(s) THEN <<DecVal(s)>>
    ELSE IF s # <<>> /\ Head(s) = "+" /\ IsDigitStr(Tail(s)) THEN <<DecVal(Tail(s))>>
    ELSE IF s # <<>> /\ Head(s) = "-" /\ IsDigitStr(Tail(s)) THEN <<0 - DecVal(Tail(s))>>
    ELSE <<>>

\* ------------------------------------------------------------------------
\* Elements and the ElementTree calls the parser uses
\* ------------------------------------------------------------------------
E(tag, kids) ==
    [tag |-> tag, ObjectID |-> "", ObjectUID |-> "", ObjectRef |-> "",
     ObjectURef |-> "", Index |-> <<>>, text |-> <<>>, kids |-> kids]

\* a leaf carrying text
T(tag, text) == [E(tag, <<>>) EXCEPT !.text = text]

NoElem == E("", <<>>)

\* tag.endswith(suffix) over the tag vocabulary of the documents
ProperSuffix ==
    { <<"ClipName", "Name">>, <<"DisplayName", "Name">>,
      <<"AbsolutePath", "Path">>, <<"RelativePath", "Path">>, <<"FilePath", "Path">> }

EndsWith(tag, suffix) == tag = suffix \/ <<tag, suffix>> \in ProperSuffix

\* elem.iter(): elem and its descendants in document order
RECURSIVE Iter(_)
Iter(e) == <<e>> \o Concat([i \in 1..Len(e.kids) |-> Iter(e.kids[i])])

\* elem.findall(".//tag")
FindAll(e, tag) == SelectSeq(Tail(Iter(e)), LAMBDA x : x.tag = tag)

\* elem.find(".//tag")
FindDeep(e, tag) == First(FindAll(e, tag), NoElem)

\* elem.find(tag): first direct child
FindChild(e, tag) == First(SelectSeq(e.kids, LAMBDA x : x.tag = tag), NoElem)

\* elem.findall(".//outer/inner")
FindAllIn(e, outer, inner) ==
    LET os == FindAll(e, outer)
    IN  Concat([i \in 1..Len(os) |-> SelectSeq(os[i].kids, LAMBDA x : x.tag = inner)])

\* bool(element): an Element without children is falsy
Truthy(e) == e # NoElem /\ e.kids # <<>>

_first_text(elem, tag) ==
    IF elem = NoElem THEN <<>>
    ELSE LET direct == SelectSeq(elem.kids,
                           LAMBDA c : EndsWith(c.tag, tag) /\ Strip(c.text) # <<>>)
             t == FindDeep(elem, tag)
         IN  IF direct # <<>> THEN Strip(Head(direct).text)
             ELSE IF t # NoElem /\ t.text # <<>> THEN Strip(t.text) ELSE <<>>

\* dict.get(key) of a dict filled in iteration order: the last entry wins
Lookup(entries, key) ==
    LET hits == { i \in 1..Len(entries) : entries[i].key = key }
    IN  IF hits = {} THEN NoElem
        ELSE entries[CHOOSE i \in hits : \A j \in hits : j <= i].elem

\* the entries of a dict keyed by an attribute, for the elements that carry it
KeyedBy(elems, attr) ==
    LET have == SelectSeq(elems, LAMBDA e : e[attr] # "")
    IN  [i \in 1..Len(have) |-> [key |-> have[i][attr], elem |-> have[i]]]

\* by_id, by_uid
_collect_objects(root) ==
    [by_id |-> KeyedBy(Iter(root), "ObjectID"), by_uid |-> KeyedBy(Iter(root), "ObjectUID")]

\* seq_by_name: Name -> Sequence element
_discover_sequences(root) ==
    LET named == SelectSeq(Iter(root),
                     LAMBDA e : EndsWith(e.tag, "Sequence") /\ _first_text(e, "Name") # <<>>)
    IN  [i \in 1..Len(named) |-> [key |-> _first_text(named[i], "Name"), elem |-> named[i]]]

\* what extract_rows builds first and every step of the call reads
Index(root) ==
    [root |-> root,
     by_id |-> _collect_objects(root).by_id,
     by_uid |-> _collect_objects(root).by_uid,
     seq_by_name |-> _discover_sequences(root)]

\* by_id.get(ref) or by_uid.get(ref)
Deref(ix, ref) ==
    IF Truthy(Lookup(ix.by_id, ref)) THEN Lookup(ix.by_id, ref) ELSE Lookup(ix.by_uid, ref)

\* _ticks without the lstrip("-+"): a signed text is no number
_ticks_unsigned(el, tag) ==
    LET t == FindDeep(el, tag)
    IN  IF t # NoElem /\ t.text # <<>> /\ IsDigitStr(Strip(t.text))
        THEN ParseInt(Strip(t.text))
        ELSE <<>>

_ticks(el, tag) ==
    LET t == FindDeep(el, tag)
    IN  IF t # NoElem /\ t.text # <<>> /\ IsDigitStr(LStripSigns(Strip(t.text)))
        THEN ParseInt(Strip(t.text))
        ELSE <<>>

\* a or b, on texts ("" and None are both falsy)
Or(a, b) == IF a # <<>> THEN a ELSE b

\* os.path.basename(p.replace("\\", "/")): what follows the last separator
RECURSIVE Basename(_)
Basename(p) ==
    IF \E i \in 1..Len(p) : p[i] \in {"/", "\\"}
    THEN Basename(Tail(p))
    ELSE p

\* first non-empty result of f over the tags, in order
FirstOver(tags, f(_)) ==
    LET rs == SelectSeq([i \in 1..Len(tags) |-> f(tags[i])], LAMBDA r : r # <<>>)
    IN  First(rs, <<>>)

_basename_from_paths(elem) ==
    FirstOver(<<"AbsolutePath", "RelativePath", "Path", "FilePath">>,
              LAMBDA tag : Basename(_first_text(elem, tag)))

_deep_name_scan(elem) ==
    LET byTag == FirstOver(<<"ClipName", "DisplayName", "Title", "Name">>,
                     LAMBDA tag : Strip(FindDeep(elem, tag).text))
        anyName == SelectSeq(Iter(elem),
                       LAMBDA d : EndsWith(d.tag, "Name") /\ Strip(d.text) # <<>>)
    IN  IF byTag # <<>> THEN byTag
        ELSE IF anyName # <<>> THEN Strip(Head(anyName).text) ELSE <<>>

\* the Sequence a reference attribute of e points to, or NoElem
SeqTarget(ix, e, key) ==
    LET target == Deref(ix, e[key])
    IN  IF e[key] # "" /\ target # NoElem /\ EndsWith(target.tag, "Sequence")
        THEN target ELSE NoElem

_find_sequence_reference(ix, elem) ==
    LET subs == <<elem>> \o Iter(elem)
        hits == Concat([i \in 1..Len(subs) |->
                    SelectSeq(<<SeqTarget(ix, subs[i], "ObjectRef"),
                                SeqTarget(ix, subs[i], "ObjectURef")>>,
                              LAMBDA t : t # NoElem)])
    IN  First(hits, NoElem)

\* what the SubClip element of an item refers to ("sr"), dereferenced
SubClipTarget(ix, seq_ref) ==
    IF seq_ref = NoElem THEN NoElem
    ELSE Deref(ix, IF seq_ref.ObjectRef # "" THEN seq_ref.ObjectRef ELSE seq_ref.ObjectURef)

\* A) SubClip reference: a Sequence is the nested sequence and backs the
\*    name, any other target backs the name only
ResolveA(name, target) ==
    IF target = NoElem THEN [name |-> name, nested_seq |-> NoElem]
    ELSE IF EndsWith(target.tag, "Sequence")
    THEN [name |-> Or(name, _first_text(target, "Name")), nested_seq |-> target]
    ELSE [name |-> Or(name, Or(_first_text(target, "Name"),
                               Or(_deep_name_scan(target), _basename_from_paths(target)))),
          nested_seq |-> NoElem]

\* B) any other reference that reaches a Sequence (seq), looked for only
\*    when A found none
ResolveB(r, seq) ==
    IF r.nested_seq = NoElem /\ seq # NoElem
    THEN [name |-> Or(r.name, _first_text(seq, "Name")), nested_seq |-> seq]
    ELSE r

\* C) the display name is the name of a known Sequence
ResolveC(ix, r) ==
    IF r.nested_seq = NoElem /\ r.name # <<>>
    THEN [r EXCEPT !.nested_seq = Lookup(ix.seq_by_name, r.name)]
    ELSE r

\* D) some display name
ResolveD(obj, r) ==
    IF r.name = <<>>
    THEN [r EXCEPT !.name = Or(_deep_name_scan(obj), _basename_from_paths(obj))]
    ELSE r

\* (name, nested_seq) of a TrackItem
_resolve_name_and_nested(ix, obj) ==
    ResolveD(obj,
        ResolveC(ix,
            ResolveB(ResolveA(_first_text(obj, "Name"),
                              SubClipTarget(ix, FindDeep(obj, "SubClip"))),
                     _find_sequence_reference(ix, obj))))

\* ------------------------------------------------------------------------
\* extract_rows
\* ------------------------------------------------------------------------
\* stands for Python's recursion limit (sys.getrecursionlimit(), 1000): the
\* number of nested add_items frames after which RecursionError is raised
RecursionLimit == 3

\* sort key of a track without a usable Index
SortLast == 9999

\* the reference of a TrackGroup entry: its First slot's, else its Second's
GroupRef(tg) ==
    LET RefOf(slot_el) ==
            IF slot_el.ObjectRef # "" THEN slot_el.ObjectRef ELSE slot_el.ObjectURef
        first == RefOf(FindChild(tg, "First"))
    IN  IF first # "" THEN first ELSE RefOf(FindChild(tg, "Second"))

\* video_groups / audio_groups of a sequence: the dereferenced TrackGroup
\* entries whose tag ends with the suffix
GroupsOf(ix, seq, suffix) ==
    LET tgs == FindAllIn(seq, "TrackGroups", "TrackGroup")
        objs == [i \in 1..Len(tgs) |->
                    IF GroupRef(tgs[i]) # "" THEN Deref(ix, GroupRef(tgs[i])) ELSE NoElem]
    IN  SelectSeq(objs, LAMBDA o : o # NoElem /\ EndsWith(o.tag, suffix))

SortKey(t) == IF t.idx = <<>> THEN SortLast ELSE t.idx[1]

\* the sort left out: tracks stay in declaration order
SortByKey_unsorted(s) == s

\* list.sort(key=...): stable, ascending
RECURSIVE SortByKey(_)
SortByKey(s) ==
    IF s = <<>> THEN <<>>
    ELSE LET x == s[Len(s)]
             front == SortByKey(SubSeq(s, 1, Len(s) - 1))
             n == Cardinality({i \in 1..Len(front) : SortKey(front[i]) <= SortKey(x)})
         IN  SubSeq(front, 1, n) \o <<x>> \o SubSeq(front, n + 1, Len(front))

tracks_from_groups(ix, groups) ==
    LET trs == Concat([i \in 1..Len(groups) |-> FindAllIn(groups[i], "Tracks", "Track")])
        Guid(tr) == IF tr.ObjectURef # "" THEN tr.ObjectURef ELSE tr.ObjectUID
        out == SelectSeq([i \in 1..Len(trs) |->
                             [idx |-> IF IsDigitStr(trs[i].Index)
                                      THEN <<DecVal(trs[i].Index)>> ELSE <<>>,
                              track |-> Lookup(ix.by_uid, Guid(trs[i]))]],
                         LAMBDA t : t.track # NoElem)
    IN  SortByKey(out)

\* the tracks of one kind ("Video", "Audio") of a sequence, sorted
TracksOf(ix, seq, kind) ==
    tracks_from_groups(ix,
        GroupsOf(ix, seq, IF kind = "Video" THEN "VideoTrackGroup" ELSE "AudioTrackGroup"))

\* What a run of add_items hands back: the rows appended, or raised when the
\* recursion limit was hit (the rows are lost with the exception).  reentered
\* is history, not program state: a sequence was expanded while it was
\* already being expanded further up the call stack.
Appended(rows) == [rows |-> rows, raised |-> FALSE, reentered |-> FALSE]

Then(a, b) ==
    IF a.raised THEN a
    ELSE [rows |-> IF b.raised THEN <<>> ELSE a.rows \o b.rows,
          raised |-> b.raised,
          reentered |-> a.reentered \/ b.reentered]

\* "if start is None or end is None: continue"
Skipped(start, end) == start = <<>> \/ end = <<>>

\* "StartTicks": start + offset_ticks, "EndTicks": end + offset_ticks
RowTicks(t, offset_ticks) == t + offset_ticks

\* the parent row appended whatever include_parent says
ParentRows_always(include_parent, parent_row) == <<parent_row>>

\* "if include_parent: rows.append(parent_row)"
ParentRows(include_parent, parent_row) ==
    IF include_parent THEN <<parent_row>> ELSE <<>>

\* the recursive call given the item's start alone, the offset so far dropped
ChildOffset_startOnly(start, offset_ticks) == start

\* the recursive call's offset_ticks=start + offset_ticks
ChildOffset(start, offset_ticks) == start + offset_ticks

\* the recursive call started on track 0 instead of the parent's track
ChildTrack_zero(track_no) == 0

\* the recursive call's track number (track_no is never None here)
ChildTrack(track_no) == track_no

\* the main walk's track number: idx if idx is not None else 0
MainTrackNo(idx) == IF idx = <<>> THEN 0 ELSE idx[1]

\* c: the call's index (ix), expand_nested, include_parent.
\* at: history only: depth = add_items frames on the stack, seqs = the
\*     sequences being expanded, path = the enclosing items, kind/k/idx = the
\*     track being walked, its position in its sorted list, its declared index.
\* A row's field src is history too: it names the items from the main
\* sequence's item down to the row's own, each with its track and its local
\* start and end.
RECURSIVE add_items(_, _, _, _, _, _)
RECURSIVE ItemsFrom(_, _, _, _, _, _, _)
RECURSIVE TracksFrom(_, _, _, _, _, _, _)

\* the path of a row: the enclosing items, then the item itself
Here(at, kind, j, start, end) ==
    at.path \o <<[kind |-> kind, k |-> at.k, idx |-> at.idx, j |-> j,
                  start |-> start, end |-> end]>>

\* parent_row
ParentRow(kind, track_no, name, start, end, offset_ticks, here) ==
    [Type |-> kind, Track |-> track_no, Name |-> name,
     StartTicks |-> RowTicks(start, offset_ticks),
     EndTicks |-> RowTicks(end, offset_ticks),
     src |-> here]

\* the two loops over the nested sequence's tracks, video then audio
Expand(c, nested_seq, track_no, offset_ticks, inner) ==
    Then(TracksFrom(c, TracksOf(c.ix, nested_seq, "Video"), 1, "Video",
                    track_no, offset_ticks, inner),
         TracksFrom(c, TracksOf(c.ix, nested_seq, "Audio"), 1, "Audio",
                    track_no, offset_ticks, inner))

\* "if nested_seq is not None and expand_nested: ... else: rows.append(parent_row)"
Placed(c, track_no, offset_ticks, at, start, nested_seq, parent_row) ==
    IF nested_seq # NoElem /\ c.expand_nested
    THEN Then([Appended(ParentRows(c.include_parent, parent_row))
                  EXCEPT !.reentered = nested_seq \in at.seqs],
              Expand(c, nested_seq, ChildTrack(track_no), ChildOffset(start, offset_ticks),
                     [depth |-> at.depth + 1, seqs |-> at.seqs \cup {nested_seq},
                      path |-> parent_row.src]))
    ELSE Appended(<<parent_row>>)

\* the loop body once start, end and (name, nested_seq) are read
Timed(c, j, kind, track_no, offset_ticks, at, start, end, res) ==
    IF Skipped(start, end) THEN Appended(<<>>)
    ELSE Placed(c, track_no, offset_ticks, at, start[1], res.nested_seq,
                ParentRow(kind, track_no, res.name, start[1], end[1], offset_ticks,
                          Here(at, kind, j, start[1], end[1])))

\* one iteration of the "for obj in track_elem.findall(.//TrackItem)" loop
OneItem(c, obj, j, kind, track_no, offset_ticks, at) ==
    Timed(c, j, kind, track_no, offset_ticks, at,
          _ticks(obj, "Start"), _ticks(obj, "End"), _resolve_name_and_nested(c.ix, obj))

ItemsFrom(c, items, j, kind, track_no, offset_ticks, at) ==
    IF j > Len(items) THEN Appended(<<>>)
    ELSE Then(OneItem(c, items[j], j, kind, track_no, offset_ticks, at),
              ItemsFrom(c, items, j + 1, kind, track_no, offset_ticks, at))

add_items(c, track_elem, kind, track_no, offset_ticks, at) ==
    IF at.depth > RecursionLimit
    THEN [rows |-> <<>>, raised |-> TRUE, reentered |-> FALSE]
    ELSE ItemsFrom(c, FindAll(track_elem, "TrackItem"), 1, kind, track_no, offset_ticks, at)

\* "for _idx2, tr2 in tracks_from_groups(...): add_items(tr2, kind, ...)"
TracksFrom(c, tracks, k, kind, track_no, offset_ticks, at) ==
    IF k > Len(tracks) THEN Appended(<<>>)
    ELSE Then(add_items(c, tracks[k].track, kind, track_no, offset_ticks,
                        [depth |-> at.depth, seqs |-> at.seqs, path |-> at.path,
                         k |-> k, idx |-> tracks[k].idx]),
              TracksFrom(c, tracks, k + 1, kind, track_no, offset_ticks, at))

\* "for idx, tr in video_tracks: add_items(tr, kind, idx if idx is not None else 0, 0)"
RECURSIVE MainTracksFrom(_, _, _, _, _)
MainTracksFrom(c, tracks, k, kind, main) ==
    IF k > Len(tracks) THEN Appended(<<>>)
    ELSE Then(add_items(c, tracks[k].track, kind, MainTrackNo(tracks[k].idx), 0,
                        [depth |-> 1, seqs |-> {main}, path |-> <<>>,
                         k |-> k, idx |-> tracks[k].idx]),
              MainTracksFrom(c, tracks, k + 1, kind, main))

\* extract_rows from "Resolve track groups" on, for a main sequence found
FlattenSeq(c, main) ==
    Then(MainTracksFrom(c, TracksOf(c.ix, main, "Video"), 1, "Video", main),
         MainTracksFrom(c, TracksOf(c.ix, main, "Audio"), 1, "Audio", main))

\* main_seq of extract_rows: the map lookup, then the fallback scan
FindMainSeq(ix, sequence_name) ==
    LET scan == SelectSeq(Iter(ix.root),
                    LAMBDA elem : EndsWith(elem.tag, "Sequence")
                                  /\ _first_text(elem, "Name") = sequence_name)
    IN  IF Lookup(ix.seq_by_name, sequence_name) # NoElem
        THEN Lookup(ix.seq_by_name, sequence_name)
        ELSE First(scan, NoElem)

Call(ix, expand, include) ==
    [ix |-> ix, expand_nested |-> expand, include_parent |-> include]

extract_rows(root, sequence_name, expand, include) ==
    LET ix == Index(root)
        main == FindMainSeq(ix, sequence_name)
    IN  IF main = NoElem THEN Appended(<<>>)
        ELSE FlattenSeq(Call(ix, expand, include), main)

\* ------------------------------------------------------------------------
\* parser/timecode.py.  A tick count is beyond the 32-bit integers of TLC,
\* so it is held as <<hi, lo>> = hi * Limb + lo with 0 <= lo < Limb.
\* ------------------------------------------------------------------------
Limb == 1000000

\* TICKS_PER_SECOND = 254_016_000_000
TICKS_PER_SECOND == <<254016, 0>>

FramesPerSecond == 24

RoundUpFrom == 13

\* n * t for a small n
Scale(t, n) == <<n * t[1] + (n * t[2]) \div Limb, (n * t[2]) % Limb>>

\* -1, 0, 1 as a is less than, equal to, greater than b
Cmp(a, b) ==
    IF a[1] # b[1] THEN (IF a[1] < b[1] THEN -1 ELSE 1)
    ELSE IF a[2] # b[2] THEN (IF a[2] < b[2] THEN -1 ELSE 1)
    ELSE 0

\* int(ticks / TICKS_PER_SECOND) and what is left of ticks, in ticks
WholeOf(ticks) == ticks[1] \div TICKS_PER_SECOND[1]

RestOf(ticks) == <<ticks[1] % TICKS_PER_SECOND[1], ticks[2]>>

\* floor(log2(n)) for n >= 1: the exponent of the float n
RECURSIVE Exponent(_)
Exponent(n) == IF n < 2 THEN 0 ELSE 1 + Exponent(n \div 2)

\* ticks / TICKS_PER_SECOND is the double nearest to the quotient.  When
\* the rest is exactly RoundUpFrom - 1/2 frames the quotient whole + 25/48
\* is no double: of its two neighbours, 2^(e-52) apart for e the exponent
\* of whole, the upper one is the nearer when e is odd (25 * 2^(48-e) / 3
\* then leaves 2/3), the lower one when e is even; below one second the
\* product frac * 24 lands half a unit above 12.5 and rounds back onto it.
QuotientAbove(whole) == whole >= 1 /\ Exponent(whole) % 2 = 1

\* the usual rounding to the nearest second: up from half a second on
RoundsUp_halfSecond(whole, rest) == Cmp(Scale(rest, 2), TICKS_PER_SECOND) >= 0

\* "frames == 13" for "frames >= 13": up only from 12.5 to 13.5 frames
RoundsUp_exactFrame(whole, rest) ==
    /\ Cmp(Scale(rest, 2 * FramesPerSecond), Scale(TICKS_PER_SECOND, 2 * RoundUpFrom - 1)) > 0
    /\ Cmp(Scale(rest, 2 * FramesPerSecond), Scale(TICKS_PER_SECOND, 2 * RoundUpFrom + 1)) < 0

\* round(frac * 24) >= 13, for frac = seconds - whole.  round() takes a
\* half to the even neighbour, so 12.5 gives 12: the test is frac * 24 >
\* 12.5, that is 2 * 24 * rest > (2 * 13 - 1) * TICKS_PER_SECOND.  One tick
\* either side of equality moves the float quotient the same way (one tick
\* is 2^-38 s, the doubles below 2^15 s lie closer than that); at equality
\* the float quotient decides.
RoundsUp(whole, rest) ==
    LET c == Cmp(Scale(rest, 2 * FramesPerSecond),
                 Scale(TICKS_PER_SECOND, 2 * RoundUpFrom - 1))
    IN  c > 0 \/ (c = 0 /\ QuotientAbove(whole))

\* str(n) for n >= 0
RECURSIVE Decimal(_)
Decimal(n) ==
    IF n < 10 THEN <<Digits[n + 1]>> ELSE Decimal(n \div 10) \o <<Digits[(n % 10) + 1]>>

\* f"{n:02d}"
Pad2(n) == IF n < 10 THEN <<"0">> \o Decimal(n) ELSE Decimal(n)

\* f"{h:02d}:{m:02d}:{s:02d}" of a number of seconds
Clock(whole) ==
    LET h == whole \div 3600
        m == (whole % 3600) \div 60
        s == whole % 60
    IN  Pad2(h) \o <<":">> \o Pad2(m) \o <<":">> \o Pad2(s)

ticks_to_tc_24fps(ticks) ==
    LET whole == WholeOf(ticks)
    IN  Clock(IF RoundsUp(whole, RestOf(ticks)) THEN whole + 1 ELSE whole)

\* Tick counts to convert: whole seconds with a rest of so many frames'
\* worth of ticks (a frame is 10584 * Limb ticks) and a few ticks more or
\* less
MaxSeconds == 11

LongWholes == {59, 60, 3599, 3600}

Rests ==
    { <<0, 0>>, <<0, 1>>,
      <<132194, 160000>>,                              \* 12.49 frames
      <<132299, 999999>>, <<132300, 0>>, <<132300, 1>>, \* 12.5 frames -1, +0, +1 tick
      <<137581, 416000>>,                              \* 12.999 frames
      <<137591, 999999>>, <<137592, 0>>, <<137592, 1>>, \* 13 frames -1, +0, +1 tick
      <<141825, 600000>>,                              \* 13.4 frames
      <<254015, 999999>> }

TickInputs ==
    { <<w * TICKS_PER_SECOND[1] + r[1], r[2]>> : w \in (0..MaxSeconds) \cup LongWholes, r \in Rests }

\* ------------------------------------------------------------------------
\* Project documents
\*
\*   Main : video tracks V1 (items a, b) and V2 (item g), audio track A1 (c)
\*   Nest : video track (item d), audio track (item e)
\*   Deep : video track (item f)
\*   clip1: a media object that is no sequence
\* Track groups are reached by ObjectID, tracks by ObjectUID, as Premiere
\* writes them.
\* ------------------------------------------------------------------------
NameMain == <<"M">>
NameNest == <<"N">>
NameDeep == <<"D">>
NameNone == <<"Z">>

Txt(tag, text) == IF text = <<>> THEN <<>> ELSE <<T(tag, text)>>

\* how an item points at what it shows
LinkKids(link) ==
    CASE link.how = "sub"  -> <<[E("SubClip", <<>>) EXCEPT !.ObjectRef = link.to]>>
      [] link.how = "usub" -> <<[E("SubClip", <<>>) EXCEPT !.ObjectURef = link.to]>>
      [] link.how = "ref"  -> <<E("Source", <<[E("Clip", <<>>) EXCEPT !.ObjectURef = link.to]>>)>>
      [] OTHER             -> <<>>

Item(name, start, end, link) ==
    E("TrackItem", Txt("Start", start) \o Txt("End", end) \o Txt("Name", name) \o LinkKids(link))

Slot(tag, ref) == [E(tag, <<>>) EXCEPT !.ObjectRef = ref]

SequenceElem(name, id, uid, groups) ==
    [E("Sequence", <<T("Name", name), E("TrackGroups", groups)>>)
        EXCEPT !.ObjectID = id, !.ObjectUID = uid]

GroupEntry(slot, ref) == E("TrackGroup", <<Slot(slot, ref)>>)

TrackEntry(index, uref) == [E("Track", <<>>) EXCEPT !.Index = index, !.ObjectURef = uref]

GroupElem(tag, id, entries) == [E(tag, <<E("Tracks", entries)>>) EXCEPT !.ObjectID = id]

TrackElem(tag, uid, items) == [E(tag, <<E("TrackItems", items)>>) EXCEPT !.ObjectUID = uid]

NoLink == [how |-> "none", to |-> ""]

\* the links an item of Main (a) or of Nest (d) may carry, with the name the
\* item then shows
Links ==
    [ none     |-> [name |-> <<"a", ".", "w">>, link |-> NoLink],
      clip     |-> [name |-> <<>>,     link |-> [how |-> "sub",  to |-> "clip1"]],
      nest     |-> [name |-> <<"n">>,  link |-> [how |-> "sub",  to |-> "sN"]],
      nestU    |-> [name |-> <<>>,     link |-> [how |-> "usub", to |-> "uN"]],
      nestRef  |-> [name |-> <<"n">>,  link |-> [how |-> "ref",  to |-> "uN"]],
      nestName |-> [name |-> NameNest, link |-> NoLink],
      deep     |-> [name |-> <<"d">>,  link |-> [how |-> "sub",  to |-> "sD"]],
      main     |-> [name |-> <<"m">>,  link |-> [how |-> "sub",  to |-> "sM"]],
      mainName |-> [name |-> NameMain, link |-> NoLink],
      missing  |-> [name |-> <<"q">>,  link |-> [how |-> "sub",  to |-> "gone"]],
      bare     |-> [name |-> <<>>,     link |-> [how |-> "sub",  to |-> "sE"]] ]

LinkedItem(l, start, end) == Item(Links[l].name, start, end, Links[l].link)

\* "uidonly": the track entries sit in the sequence's own TrackGroup, whose
\* slot refers to nothing; "direct": no groups at all
NestGroups(shape) ==
    CASE shape \in {"nogroups", "direct"} -> <<>>
      [] shape = "uidonly" ->
            <<E("TrackGroup", <<E("Second", <<>>),
                                E("Tracks", <<TrackEntry(<<"5">>, "tNV"),
                                              TrackEntry(<<"0">>, "tNA")>>)>>)>>
      [] OTHER -> <<GroupEntry("Second", "gNV"), GroupEntry("Second", "gNA")>>

\* "direct": the sequence element holds its tracks itself
NestBare(shape, video_item, audio_item) ==
    IF shape = "direct"
    THEN <<TrackElem("VideoClipTrack", "", <<video_item>>),
           TrackElem("AudioClipTrack", "", <<audio_item>>)>>
    ELSE <<>>

SequenceWith(seq, more) == [seq EXCEPT !.kids = @ \o more]

NestItems(shape, item) ==
    CASE shape = "noitems"   -> <<>>
      [] shape = "malformed" -> <<[item EXCEPT !.kids = Tail(item.kids)]>>
      [] OTHER               -> <<item>>

\* "clash": a second video track whose ObjectID is the token that is the
\* ObjectUID of Nest's video track
IdTwins(shape) ==
    IF shape = "clash"
    THEN <<[TrackElem("VideoClipTrack", "", <<Item(<<"x">>, <<"3">>, <<"4">>, NoLink)>>)
               EXCEPT !.ObjectID = "tNV"]>>
    ELSE <<>>

\* besides the sequences and their tracks: clip1; an empty Sequence element
\* with ObjectID sE and a clip with ObjectUID sE, one token in both spaces
Doc(p) ==
    E("PremiereData", <<
        SequenceElem(NameMain, "sM", "uM",
            <<GroupEntry("First", "gMV"), GroupEntry("Second", "gMA")>>),
        GroupElem("VideoTrackGroup", "gMV",
            <<TrackEntry(p.iV1, "tMV1"), TrackEntry(p.iV2, "tMV2")>>),
        GroupElem("AudioTrackGroup", "gMA", <<TrackEntry(<<"0">>, "tMA1")>>),
        TrackElem("VideoClipTrack", "tMV1",
            <<LinkedItem(p.la, p.sa, p.ea), Item(<<"b">>, p.sb, <<"6">>, NoLink)>>),
        TrackElem("VideoClipTrack", "tMV2", <<Item(<<"g">>, <<"0">>, <<"3">>, NoLink)>>),
        TrackElem("AudioClipTrack", "tMA1", <<Item(<<"c">>, <<"0">>, <<"6">>, NoLink)>>),
        SequenceWith(SequenceElem(NameNest, "sN", "uN", NestGroups(p.shape)),
                     NestBare(p.shape, LinkedItem(p.ld, p.sd, <<"2">>),
                              Item(<<"e">>, <<"0">>, <<"2">>, NoLink))),
        GroupElem("VideoTrackGroup", "gNV", <<TrackEntry(<<"5">>, "tNV")>>),
        GroupElem("AudioTrackGroup", "gNA", <<TrackEntry(<<"0">>, "tNA")>>),
        TrackElem("VideoClipTrack", "tNV", NestItems(p.shape, LinkedItem(p.ld, p.sd, <<"2">>))),
        TrackElem("AudioClipTrack", "tNA",
            NestItems(p.shape, Item(<<"e">>, <<"0">>, <<"2">>, NoLink))),
        SequenceElem(NameDeep, "sD", "uD", <<GroupEntry("Second", "gDV")>>),
        GroupElem("VideoTrackGroup", "gDV", <<TrackEntry(<<"7">>, "tDV")>>),
        TrackElem("VideoClipTrack", "tDV", <<Item(<<"f">>, <<"1">>, <<"1">>, NoLink)>>),
        [E("Clip", <<T("Name", <<"c", "1">>)>>) EXCEPT !.ObjectID = "clip1"],
        [E("Sequence", <<>>) EXCEPT !.ObjectID = "sE"],
        [E("Clip", <<T("Name", <<"c", "2">>)>>) EXCEPT !.ObjectUID = "sE"]
    >> \o IdTwins(p.shape))

\* Start/End texts: plain, signed, padded, and not numbers
StartTexts ==
    { <<"0">>, <<"2">>, <<"1", "0">>, <<"-", "3">>, <<"+", "4">>, <<" ", "7", " ">>,
      <<"x">>, <<"+", "-", "5">>, <<>> }

EndTexts == { <<"5">>, <<"1">>, <<"-", "9">>, <<>> }

IndexTexts == { <<"1">>, <<>>, <<"x">> }

BaseDoc ==
    [iV1 |-> <<"1">>, iV2 |-> <<"0">>, la |-> "nest", sa |-> <<"2">>, ea |-> <<"5">>,
     sb |-> <<"5">>, ld |-> "none", sd |-> <<"1">>, shape |-> "full"]

DocParams ==
    { [BaseDoc EXCEPT !.la = l, !.sa = s, !.ea = e] :
          l \in {"none", "nest"}, s \in StartTexts, e \in {<<"5">>, <<>>} }
    \cup { [BaseDoc EXCEPT !.sa = s, !.ea = e] : s \in {<<"2">>, <<"1", "0">>}, e \in EndTexts }
    \cup { [BaseDoc EXCEPT !.la = l, !.ld = m] :
          l \in {"none", "clip", "nest", "nestU", "nestRef", "nestName", "main",
                 "mainName", "missing"},
          m \in {"none", "deep", "main", "nest", "nestName"} }
    \cup { [BaseDoc EXCEPT !.la = l, !.ld = m, !.shape = h] :
          l \in {"nest", "nestName"}, m \in {"none", "deep"},
          h \in {"noitems", "malformed", "nogroups"} }
    \cup { [BaseDoc EXCEPT !.la = l, !.shape = h] :
          l \in {"none", "nest"}, h \in {"uidonly", "direct"} }
    \cup { [BaseDoc EXCEPT !.la = "bare", !.ld = m] : m \in {"none", "bare"} }
    \cup { [BaseDoc EXCEPT !.la = l, !.shape = "clash"] : l \in {"none", "nest"} }
    \cup { [BaseDoc EXCEPT !.iV1 = i, !.iV2 = j, !.la = l] :
          i \in IndexTexts, j \in {<<"0">>, <<"2">>, <<>>}, l \in {"none", "nest"} }
    \cup { [BaseDoc EXCEPT !.ld = m, !.sd = s, !.sb = t] :
          m \in {"none", "deep"}, s \in {<<"1">>, <<"-", "4">>, <<>>}, t \in {<<"5">>, <<>>} }

SequenceNames == {NameMain, NameNest, NameDeep, NameNone}

\* ------------------------------------------------------------------------
\* The app script (app.py): a project is uploaded, a sequence and the two
\* options are picked, extract_rows runs; any change of a widget reruns it.
\* ------------------------------------------------------------------------
VARIABLES
    uploaded,        \* the uploaded project, as the choices that make up its text
    phase,           \* "options": before extract_rows; "rows": after it
    main_seq,        \* the sequence name picked
    expand_nested,
    include_parent,
    rows_list,       \* what extract_rows returned ([] when it raised)
    failure,         \* the exception extract_rows raised, "" when none
    reentered,       \* history: the call expanded a sequence inside itself
    ticks,           \* a tick count handed to ticks_to_tc_24fps
    tc               \* the timecode it gave, <<>> before the call

\* xml_root = load_xml_tree(uploaded.getvalue())
xml_root == Doc(uploaded)

vars == <<uploaded, phase, main_seq, expand_nested, include_parent, rows_list, failure,
          reentered, ticks, tc>>

Init ==
    /\ uploaded \in DocParams
    /\ phase = "options"
    /\ main_seq = <<>>
    /\ expand_nested = TRUE
    /\ include_parent = FALSE
    /\ rows_list = <<>>
    /\ failure = ""
    /\ reentered = FALSE
    /\ ticks = <<0, 0>>
    /\ tc = <<>>

\* app.py 125-137: rows_list = extract_rows(...), [] on an exception
Extract(name, expand, include) ==
    /\ phase = "options"
    /\ LET got == extract_rows(xml_root, name, expand, include)
       IN  /\ rows_list' = got.rows
           /\ failure' = IF got.raised THEN "RecursionError" ELSE ""
           /\ reentered' = got.reentered
    /\ main_seq' = name
    /\ expand_nested' = expand
    /\ include_parent' = include
    /\ phase' = "rows"
    /\ UNCHANGED <<uploaded, ticks, tc>>

\* a widget changes: the script starts over on the same upload (app.py 57-61)
Rerun ==
    /\ phase = "rows"
    /\ phase' = "options"
    /\ main_seq' = <<>>
    /\ expand_nested' = TRUE
    /\ include_parent' = FALSE
    /\ rows_list' = <<>>
    /\ failure' = ""
    /\ reentered' = FALSE
    /\ UNCHANGED <<uploaded, ticks, tc>>

Next ==
    \/ \E name \in SequenceNames, expand \in BOOLEAN, include \in BOOLEAN :
           Extract(name, expand, include)
    \/ Rerun

Spec == Init /\ [][Next]_vars

\* ticks_to_tc_24fps on its own: a tick count comes in, its timecode goes out
\* (app.py 147-151 does this to the StartTicks and EndTicks of every row)
InitTc ==
    /\ uploaded = BaseDoc
    /\ phase = "ticks"
    /\ main_seq = <<>>
    /\ expand_nested = TRUE
    /\ include_parent = FALSE
    /\ rows_list = <<>>
    /\ failure = ""
    /\ reentered = FALSE
    /\ ticks \in TickInputs
    /\ tc = <<>>

Convert ==
    /\ phase = "ticks"
    /\ tc' = ticks_to_tc_24fps(ticks)
    /\ phase' = "tc"
    /\ UNCHANGED <<uploaded, main_seq, expand_nested, include_parent, rows_list, failure,
                   reentered, ticks>>

NextTc == Convert

SpecTc == InitTc /\ [][NextTc]_vars

\* ------------------------------------------------------------------------
\* Properties.  What a document says is read off the document itself.
\* ------------------------------------------------------------------------
\* an optionally signed decimal number, spaces around it allowed
IsIntText(s) ==
    \/ IsDigitStr(Strip(s))
    \/ /\ Strip(s) # <<>>
       /\ Head(Strip(s)) \in {"+", "-"}
       /\ IsDigitStr(Tail(Strip(s)))

HasTick(obj, tag) == IsIntText(FindDeep(obj, tag).text)

TickOf(obj, tag) == ParseInt(Strip(FindDeep(obj, tag).text))[1]

\* the track number a row of the main walk shows for a declared index
Shown(idx) == IF idx = <<>> THEN 0 ELSE idx[1]

\* the items of the tracks of one kind of a sequence: track position k in
\* the sorted list, declared index, item position j, whether the item has
\* both ticks, and the sequence it resolves to
ItemsOfKind(ix, seq, kind) ==
    LET tracks == TracksOf(ix, seq, kind)
    IN  Concat([k \in 1..Len(tracks) |->
            LET objs == FindAll(tracks[k].track, "TrackItem")
            IN  [j \in 1..Len(objs) |->
                    [kind |-> kind, k |-> k, idx |-> tracks[k].idx, j |-> j, obj |-> objs[j],
                     timed |-> HasTick(objs[j], "Start") /\ HasTick(objs[j], "End"),
                     nested |-> _resolve_name_and_nested(ix, objs[j]).nested_seq]]])

\* the call that has run, as the document describes it
View ==
    LET ix == Index(xml_root)
        main == FindMainSeq(ix, main_seq)
    IN  [ix |-> ix, main |-> main,
         items |-> IF main = NoElem THEN <<>>
                   ELSE ItemsOfKind(ix, main, "Video") \o ItemsOfKind(ix, main, "Audio")]

\* a path element of a row names the item p
IsAt(e, p) == e.kind = p.kind /\ e.k = p.k /\ e.j = p.j

\* the rows emitted for the item p itself, and those of its expansion
OwnRows(p) == SelectSeq(rows_list, LAMBDA r : Len(r.src) = 1 /\ IsAt(r.src[1], p))

ChildRows(p) == SelectSeq(rows_list, LAMBDA r : Len(r.src) > 1 /\ IsAt(r.src[1], p))

\* a row as the caller sees it
Public(r) ==
    [Type |-> r.Type, Track |-> r.Track, Name |-> r.Name,
     StartTicks |-> r.StartTicks, EndTicks |-> r.EndTicks]

PublicSet(rows) == { Public(rows[i]) : i \in 1..Len(rows) }

RECURSIVE SumStarts(_)
SumStarts(path) == IF path = <<>> THEN 0 ELSE Head(path).start + SumStarts(Tail(path))

\* ---- C1 ----
C1_Case(v) ==
    /\ phase = "rows"
    /\ v.main # NoElem
    /\ ~expand_nested \/ \A i \in 1..Len(v.items) : v.items[i].nested = NoElem

\* C1: without expansion (expand_nested false, or no item of the sequence
\* resolves to a nested sequence) extract_rows does not raise and returns
\* exactly one row per track item that has integer Start and End ticks, none
\* for an item that lacks one; the row has Type = the track's kind, Track =
\* the track's index (0 when it has none) and the item's own ticks.
C1_OneRowPerTimedItem ==
    phase = "rows" =>
        LET v == View
        IN  C1_Case(v) =>
                /\ failure = ""
                /\ \A i \in 1..Len(v.items) :
                       LET p == v.items[i]
                           own == OwnRows(p)
                       IN  IF p.timed
                           THEN /\ Len(own) = 1
                                /\ own[1].Type = p.kind
                                /\ own[1].Track = Shown(p.idx)
                                /\ own[1].StartTicks = TickOf(p.obj, "Start")
                                /\ own[1].EndTicks = TickOf(p.obj, "End")
                           ELSE own = <<>>
                /\ Len(rows_list) = Len(SelectSeq(v.items, LAMBDA p : p.timed))

\* a track with a malformed item and a well-formed sibling whose row is there
C1_Witness ==
    /\ phase = "rows"
    /\ LET v == View
       IN  /\ C1_Case(v)
           /\ \E i, j \in 1..Len(v.items) :
                  /\ v.items[i].kind = v.items[j].kind
                  /\ v.items[i].k = v.items[j].k
                  /\ ~v.items[i].timed
                  /\ v.items[j].timed
                  /\ Len(OwnRows(v.items[j])) = 1

\* ---- C2 ----
Shifted(rows, by) ==
    [i \in 1..Len(rows) |->
        [rows[i] EXCEPT !.StartTicks = @ + by, !.EndTicks = @ + by]]

OnTrack(rows, track) == [i \in 1..Len(rows) |-> [rows[i] EXCEPT !.Track = track]]

\* the sequence the item of a row of the main walk resolves to
NestedOfRow(v, r) ==
    LET hits == SelectSeq(v.items, LAMBDA p : IsAt(r.src[1], p))
    IN  IF hits = <<>> THEN NoElem ELSE hits[1].nested

\* flatten(S, expandNested=false), each row with what stands in its place:
\* the row itself, or for a row of a nesting item the rows of the nested
\* sequence flattened on its own, moved by the item's start
Composed(v) ==
    LET flat == FlattenSeq(Call(v.ix, FALSE, FALSE), v.main).rows
    IN  [i \in 1..Len(flat) |->
            [parent |-> flat[i],
             rows |-> IF NestedOfRow(v, flat[i]) = NoElem THEN <<flat[i]>>
                      ELSE Shifted(FlattenSeq(Call(v.ix, TRUE, FALSE),
                                              NestedOfRow(v, flat[i])).rows,
                                   flat[i].StartTicks)]]

C2_Case(v) ==
    /\ phase = "rows" /\ expand_nested /\ ~include_parent /\ failure = ""
    /\ v.main # NoElem
    /\ \E i \in 1..Len(v.items) : v.items[i].timed /\ v.items[i].nested # NoElem

\* C2 as claimed: the composed rows, only their ticks moved, are the rows of
\* flatten(S, expandNested=true, includeParentRow=false).
C2_AsClaimed ==
    (phase = "rows" /\ expand_nested /\ ~include_parent) =>
        LET v == View
            parts == Composed(v)
        IN  C2_Case(v) =>
                PublicSet(rows_list) = PublicSet(Concat([i \in 1..Len(parts) |-> parts[i].rows]))

\* C2, amended: the composed rows, their ticks moved by the parent item's
\* start and their Track set to the parent row's, are the rows of
\* flatten(S, expandNested=true, includeParentRow=false); and every row's
\* ticks are its item's local ticks plus the starts of the enclosing items.
C2_OffsetComposition ==
    (phase = "rows" /\ expand_nested /\ ~include_parent) =>
        LET v == View
            parts == Composed(v)
        IN  C2_Case(v) =>
                /\ PublicSet(rows_list) =
                       PublicSet(Concat([i \in 1..Len(parts) |->
                                            OnTrack(parts[i].rows, parts[i].parent.Track)]))
                /\ \A i \in 1..Len(rows_list) :
                       LET path == rows_list[i].src
                       IN  /\ rows_list[i].StartTicks = SumStarts(path)
                           /\ rows_list[i].EndTicks =
                                  path[Len(path)].end + SumStarts(SubSeq(path, 1, Len(path) - 1))

\* a row two sequences down, both enclosing items starting after 0
C2_Witness ==
    /\ phase = "rows" /\ expand_nested /\ ~include_parent
    /\ C2_Case(View)
    /\ \E i \in 1..Len(rows_list) :
           /\ Len(rows_list[i].src) = 3
           /\ rows_list[i].src[1].start > 0
           /\ rows_list[i].src[2].start > 0

\* ---- C3 ----
\* C3: an item that resolves to a nested sequence whose expansion yields no
\* row still has exactly one row of its own, whatever include_parent is.
C3_SafetyNet ==
    (phase = "rows" /\ expand_nested /\ failure = "") =>
        LET v == View
        IN  \A i \in 1..Len(v.items) :
                (v.items[i].timed /\ v.items[i].nested # NoElem /\ ChildRows(v.items[i]) = <<>>)
                    => Len(OwnRows(v.items[i])) = 1

\* ---- C4 ----
\* C4: a call that comes back to a sequence it is already expanding ends
\* with a structural-cycle error.
C4_CycleReported ==
    (phase = "rows" /\ reentered) => failure = "StructuralCycle"

\* ---- C5 ----
\* C5: every row has 0 <= StartTicks <= EndTicks.
C5_TicksOrdered ==
    \A i \in 1..Len(rows_list) :
        /\ 0 <= rows_list[i].StartTicks
        /\ rows_list[i].StartTicks <= rows_list[i].EndTicks

\* ---- C6 ----
KindRank(kind) == IF kind = "Video" THEN 0 ELSE 1

\* the first position at which two paths name different items, 0 when one
\* path continues the other
FirstDiff(a, b) ==
    LET n == IF Len(a) < Len(b) THEN Len(a) ELSE Len(b)
        diff == { m \in 1..n : ~IsAt(a[m], b[m]) }
    IN  IF diff = {} THEN 0 ELSE CHOOSE m \in diff : \A x \in diff : m <= x

\* x's item is walked before y's at their common level
WalkedBefore(x, y) ==
    \/ KindRank(x.kind) < KindRank(y.kind)
    \/ /\ x.kind = y.kind
       /\ SortKey(x) <= SortKey(y)
       /\ x.k < y.k \/ (x.k = y.k /\ x.j < y.j)

\* C6 as claimed, on the main walk: within one kind the rows come by
\* ascending track number.
C6_AsClaimed ==
    \A i, j \in 1..Len(rows_list) :
        (/\ i < j
         /\ Len(rows_list[i].src) = 1 /\ Len(rows_list[j].src) = 1
         /\ rows_list[i].Type = rows_list[j].Type)
            => rows_list[i].Track <= rows_list[j].Track

\* C6, amended: at every level of the walk the rows of video tracks (with
\* the rows of their expansions) come before those of audio tracks; within
\* a kind they come track by track, by ascending sort key (the declared
\* Index, 9999 for a track without a numeric one, whose rows show Track 0),
\* items in document order; no Audio row comes before a Video row of the
\* same level.
C6_TraversalOrder ==
    \A i, j \in 1..Len(rows_list) :
        LET a == rows_list[i].src
            b == rows_list[j].src
            m == FirstDiff(a, b)
        IN  (i < j /\ m # 0) =>
                /\ WalkedBefore(a[m], b[m])
                /\ (m = Len(a) /\ m = Len(b)) =>
                       ~(rows_list[i].Type = "Audio" /\ rows_list[j].Type = "Video")

\* an Audio row of an expansion ahead of a Video row of the main walk, and
\* the rows of a track without Index after those of a track with one
C6_Witness ==
    /\ \E i, j \in 1..Len(rows_list) :
           /\ i < j
           /\ rows_list[i].Type = "Audio" /\ Len(rows_list[i].src) = 2
           /\ rows_list[j].Type = "Video" /\ Len(rows_list[j].src) = 1
    /\ \E i, j \in 1..Len(rows_list) :
           /\ i < j
           /\ Len(rows_list[i].src) = 1 /\ Len(rows_list[j].src) = 1
           /\ rows_list[i].Type = rows_list[j].Type
           /\ rows_list[i].src[1].idx # <<>>
           /\ rows_list[j].src[1].idx = <<>>

\* ---- C7 ----
\* C7: every row of an expansion, at any depth, shows the track number of
\* the main-sequence track whose item contains it.
C7_ChildrenKeepParentTrack ==
    \A i \in 1..Len(rows_list) :
        Len(rows_list[i].src) > 1 => rows_list[i].Track = Shown(rows_list[i].src[1].idx)

\* a row two sequences down whose own track and whose parent's track have
\* other indices than the one it shows
C7_Witness ==
    \E i \in 1..Len(rows_list) :
        LET r == rows_list[i]
        IN  /\ Len(r.src) = 3
            /\ r.src[2].idx # <<>> /\ r.src[2].idx[1] # r.Track
            /\ r.src[3].idx # <<>> /\ r.src[3].idx[1] # r.Track
            /\ r.Track = Shown(r.src[1].idx)

\* ---- C8 ----
\* the positions of the rows emitted for the item a path names
RowsOf(path) == { j \in 1..Len(rows_list) : rows_list[j].src = path }

\* C8: when the expansion of an item yields a row, the item's own row is in
\* the output exactly if include_parent is set, once, and before every row
\* of the expansion.
C8_ParentRowIffIncluded ==
    \A i \in 1..Len(rows_list) :
        \A m \in 1..(Len(rows_list[i].src) - 1) :
            LET parents == RowsOf(SubSeq(rows_list[i].src, 1, m))
            IN  /\ include_parent <=> parents # {}
                /\ Cardinality(parents) <= 1
                /\ \A j \in parents : j < i

\* both parents of a row two sequences down are there, ahead of it
C8_Witness ==
    /\ include_parent
    /\ \E i \in 1..Len(rows_list) :
           /\ Len(rows_list[i].src) = 3
           /\ \E j, k \in 1..Len(rows_list) :
                  /\ j < k /\ k < i
                  /\ rows_list[j].src = SubSeq(rows_list[i].src, 1, 1)
                  /\ rows_list[k].src = SubSeq(rows_list[i].src, 1, 2)

\* ---- C9 ----
\* what the caller of extract_rows gets to see
Outcome(got) == [rows |-> got.rows, raised |-> got.raised]

\* C9: a call on an unknown sequence name returns no rows and raises
\* nothing, and what it hands back differs from what a call with the same
\* options on a sequence that exists but has no clips hands back.
C9_UnknownSignalled ==
    (phase = "rows" /\ View.main = NoElem) =>
        /\ rows_list = <<>>
        /\ failure = ""
        /\ \A name \in SequenceNames :
               LET ix == Index(xml_root)
                   seq == FindMainSeq(ix, name)
               IN  (/\ seq # NoElem
                    /\ ItemsOfKind(ix, seq, "Video") \o ItemsOfKind(ix, seq, "Audio") = <<>>)
                       => Outcome(extract_rows(xml_root, name, expand_nested, include_parent))
                              # [rows |-> rows_list, raised |-> failure # ""]

\* ---- C10 ----
\* the whole seconds of the tick count converted, and how its rest stands
\* to so many frames' worth of ticks (-1 below, 0 equal, 1 above)
WholeSeconds == ticks[1] \div 254016

RestAgainst(frames_hi, frames_lo) ==
    LET hi == ticks[1] % 254016
    IN  IF hi # frames_hi THEN (IF hi < frames_hi THEN -1 ELSE 1)
        ELSE IF ticks[2] # frames_lo THEN (IF ticks[2] < frames_lo THEN -1 ELSE 1)
        ELSE 0

\* 10 s and 12.999 frames, 10 s and 13.4 frames, 10 s and 12.49 frames
TenAnd12_999 == <<10 * 254016 + 137581, 416000>>

TenAnd13_4 == <<10 * 254016 + 141825, 600000>>

TenAnd12_49 == <<10 * 254016 + 132194, 160000>>

\* the whole seconds at which a rest of exactly 12.5 frames goes up
UpAtHalfFrame == (2..3) \cup (8..15) \cup (32..63) \cup (2048..4095)

WellFormedTc(str) ==
    LET n == Len(str)
    IN  /\ n >= 8
        /\ str[n - 2] = ":" /\ str[n - 5] = ":"
        /\ \A i \in (1..n) \ {n - 2, n - 5} : \E d \in 1..10 : Digits[d] = str[i]

HoursOf(str) == DecVal(SubSeq(str, 1, Len(str) - 6))

MinutesOf(str) == DecVal(SubSeq(str, Len(str) - 4, Len(str) - 3))

SecondsOf(str) == DecVal(SubSeq(str, Len(str) - 1, Len(str)))

EncodedSeconds(str) == 3600 * HoursOf(str) + 60 * MinutesOf(str) + SecondsOf(str)

\* tick count a is at most tick count b
TicksAtMost(a, b) == a[1] < b[1] \/ (a[1] = b[1] /\ a[2] <= b[2])

\* C11: the timecode of a tick count encodes at least as many seconds as
\* the timecode of every smaller tick count, and is hours (two digits, more
\* only from 100 hours on), two-digit minutes and two-digit seconds, both in
\* 00..59, with colons between.
C11_MonotoneAndFormatted ==
    phase = "tc" =>
        /\ WellFormedTc(tc)
        /\ MinutesOf(tc) \in 0..59
        /\ SecondsOf(tc) \in 0..59
        /\ Len(tc) > 8 => HoursOf(tc) >= 100
        /\ \A t \in TickInputs :
               TicksAtMost(t, ticks) =>
                   /\ WellFormedTc(ticks_to_tc_24fps(t))
                   /\ EncodedSeconds(ticks_to_tc_24fps(t)) <= EncodedSeconds(tc)

\* 59 s and 13 frames has become 00:01:00, a smaller count of the same
\* second reads 00:00:59 and one late in the second before reads 00:00:59
C11_Witness ==
    /\ phase = "tc"
    /\ ticks = <<59 * 254016 + 137592, 0>>
    /\ tc = <<"0", "0", ":", "0", "1", ":", "0", "0">>
    /\ ticks_to_tc_24fps(<<59 * 254016, 1>>) = <<"0", "0", ":", "0", "0", ":", "5", "9">>
    /\ ticks_to_tc_24fps(<<58 * 254016 + 254015, 999999>>)
           = <<"0", "0", ":", "0", "0", ":", "5", "9">>

\* ---- C12 ----
\* the track tag of a kind
TrackTag(kind) == IF kind = "Video" THEN "VideoClipTrack" ELSE "AudioClipTrack"

\* strategy 2 as specified: the track entries anywhere under the sequence's
\* TrackGroups, each taken by its UID straight to a track node of the kind
UidFallbackTracks(ix, seq, kind) ==
    LET entries == FindAll(FindDeep(seq, "TrackGroups"), "Track")
        nodes == [i \in 1..Len(entries) |->
                     Lookup(ix.by_uid, IF entries[i].ObjectURef # ""
                                       THEN entries[i].ObjectURef ELSE entries[i].ObjectUID)]
    IN  SelectSeq(nodes, LAMBDA n : n # NoElem /\ n.tag = TrackTag(kind))

\* strategy 3 as specified: the bare track nodes in the sequence's subtree
DirectFallbackTracks(seq, kind) == FindAll(seq, TrackTag(kind))

\* the tracks the fallbacks give: strategy 2, or strategy 3 when 2 finds
\* none of either kind
FallbackTracks(ix, seq, kind) ==
    IF UidFallbackTracks(ix, seq, "Video") \o UidFallbackTracks(ix, seq, "Audio") # <<>>
    THEN UidFallbackTracks(ix, seq, kind)
    ELSE DirectFallbackTracks(seq, kind)

\* the well-formed items on a list of tracks
TimedItemsOn(tracks) ==
    SelectSeq(Concat([k \in 1..Len(tracks) |-> FindAll(tracks[k], "TrackItem")]),
              LAMBDA obj : HasTick(obj, "Start") /\ HasTick(obj, "End"))

\* C12: when the group-based strategy finds no track for the sequence, the
\* tracks of the declared-UID fallback, or failing that of the direct scan,
\* are walked: every well-formed item on them has its row.
C12_FallbackStrategies ==
    (phase = "rows" /\ failure = "") =>
        LET v == View
        IN  (/\ v.main # NoElem
             /\ TracksOf(v.ix, v.main, "Video") \o TracksOf(v.ix, v.main, "Audio") = <<>>)
                => Len(SelectSeq(rows_list, LAMBDA r : Len(r.src) = 1))
                       = Len(TimedItemsOn(FallbackTracks(v.ix, v.main, "Video")))
                         + Len(TimedItemsOn(FallbackTracks(v.ix, v.main, "Audio")))

\* resolve(ref): byId first, byUid only for a token that is no key of byId;
\* a token in neither map is a miss
IdFirst(ix, ref) ==
    IF \E i \in 1..Len(ix.by_id) : ix.by_id[i].key = ref
    THEN Lookup(ix.by_id, ref)
    ELSE Lookup(ix.by_uid, ref)

Range(s) == { s[i] : i \in 1..Len(s) }

\* the token a reference-carrying element holds
TokenOf(e) == IF e.ObjectRef # "" THEN e.ObjectRef ELSE e.ObjectURef

\* the token of a track entry
EntryToken(tr) == IF tr.ObjectURef # "" THEN tr.ObjectURef ELSE tr.ObjectUID

\* the track nodes resolve gives for the entries of one track group
IdFirstTracks(ix, group) ==
    LET trs == FindAllIn(group, "Tracks", "Track")
    IN  { IdFirst(ix, EntryToken(trs[i])) : i \in 1..Len(trs) } \ {NoElem}

\* sub-clip references give the byId node of a byId token
SubClipsIdFirst(ix) ==
    \A sc \in { x \in Range(Iter(ix.root)) : x.tag = "SubClip" } :
        TokenOf(sc) # "" => SubClipTarget(ix, sc) = IdFirst(ix, TokenOf(sc))

\* sequence-reference detection gives the byId node of a byId token
SeqRefsIdFirst(ix) ==
    \A e \in { x \in Range(Iter(ix.root)) : x.ObjectRef # "" } :
        SeqTarget(ix, e, "ObjectRef")
            = IF EndsWith(IdFirst(ix, e.ObjectRef).tag, "Sequence")
              THEN IdFirst(ix, e.ObjectRef) ELSE NoElem

\* track-group slots give the byId node of a byId token
SlotsIdFirst(ix) ==
    \A tg \in { x \in Range(Iter(ix.root)) : x.tag = "TrackGroup" /\ GroupRef(x) # "" } :
        Deref(ix, GroupRef(tg)) = IdFirst(ix, GroupRef(tg))

\* track entries give the byId node of a byId token
EntriesIdFirst(ix) ==
    \A g \in { x \in Range(Iter(ix.root)) : x.tag \in {"VideoTrackGroup", "AudioTrackGroup"} } :
        { t.track : t \in Range(tracks_from_groups(ix, <<g>>)) } = IdFirstTracks(ix, g)

\* C13: every dereference made while flattening (track-group slots, track
\* entries, sub-clip references, sequence-reference detection) gives the
\* byId node whenever the token is a key of byId, whatever byUid maps it to
\* and whatever the node holds; byUid answers only for tokens absent from
\* byId, and a token in neither map is a miss.
C13_IdBeforeUid ==
    (phase = "rows" /\ failure = "") =>
        /\ SlotsIdFirst(View.ix)
        /\ EntriesIdFirst(View.ix)
        /\ SubClipsIdFirst(View.ix)
        /\ SeqRefsIdFirst(View.ix)

====
